---------------------------- MODULE Spec2Model ----------------------------
(***************************************************************************)
(* Model of the Minnesota corporate prospect research tool                 *)
(* (minnesota_prospect_research[1].py): identifier resolution, identity    *)
(* and XBRL facts extraction, foundation search, the two scorers, the      *)
(* per-company orchestration and the priority ranking.                     *)
(*                                                                         *)
(* Encoding of Python values:                                              *)
(*   - a str is a sequence of one-character strings, so that upper(),      *)
(*     lower(), split() and the substring test `in` are computed;          *)
(*   - a value that may be None is a set with at most one element          *)
(*     (None is {}), so dict.get(k) without default is such a set;         *)
(*   - a dict is a function from key strings to values;                    *)
(*   - money amounts are integers in units of Unit dollars.                *)
(***************************************************************************)
EXTENDS Integers, Sequences, FiniteSets, TLC

VARIABLES
    idx,                \* research_all_companies: index of the company being researched
    pc,                 \* position inside research_company / main
    term_i,             \* search_foundation: index of the search term being queried
    cik,                \* research_company local
    company_info,       \* research_company local
    financials,         \* research_company local
    foundation_search,  \* research_company local
    foundation_details, \* research_company local
    results,            \* research_all_companies: results list
    sorted_results,     \* main: the priority ranking
    calls               \* history: the upstream calls issued so far, with their responses

vars == <<idx, pc, term_i, cik, company_info, financials, foundation_search,
          foundation_details, results, sorted_results, calls>>

---------------------------------------------------------------------------
(* Python values *)

None == {}

Some(x) == {x}

The(o) == CHOOSE x \in o : TRUE

EmptyDict == [k \in {} |-> {}]

\* d.get(k, default)
Get(d, k, default) == IF k \in DOMAIN d THEN d[k] ELSE default

\* d.get(k) where the stored value is already a may-be-None value
GetOpt(d, k) == IF k \in DOMAIN d THEN d[k] ELSE None

\* a or b, for may-be-None values whose present values are all truthy
Or(a, b) == IF a # None THEN a ELSE b

---------------------------------------------------------------------------
(* Python str operations *)

Lowercase == <<"a", "b", "c", "d", "e", "f", "g", "h", "i", "j", "k", "l", "m", "n", "o", "p", "q", "r", "s", "t", "u", "v", "w", "x", "y", "z">>

Uppercase == <<"A", "B", "C", "D", "E", "F", "G", "H", "I", "J", "K", "L", "M", "N", "O", "P", "Q", "R", "S", "T", "U", "V", "W", "X", "Y", "Z">>

\* code point order of the characters that occur in period-end dates
DateChars == <<"-", "0", "1", "2", "3", "4", "5", "6", "7", "8", "9">>

UpperChar(c) == IF \E i \in 1..Len(Lowercase) : Lowercase[i] = c
                THEN Uppercase[CHOOSE i \in 1..Len(Lowercase) : Lowercase[i] = c]
                ELSE c

LowerChar(c) == IF \E i \in 1..Len(Uppercase) : Uppercase[i] = c
                THEN Lowercase[CHOOSE i \in 1..Len(Uppercase) : Uppercase[i] = c]
                ELSE c

\* s.upper()
upper(s) == [i \in 1..Len(s) |-> UpperChar(s[i])]

\* s.lower()
lower(s) == [i \in 1..Len(s) |-> LowerChar(s[i])]

\* sub in s
Contains(sub, s) ==
    \E k \in 0..(Len(s) - Len(sub)) : \A i \in 1..Len(sub) : s[k + i] = sub[i]

\* s.split()[0]: the first maximal run of non-blank characters
first_word(s) ==
    LET start == CHOOSE i \in 1..Len(s) :
                     s[i] # " " /\ \A j \in 1..(i - 1) : s[j] = " "
        stop  == CHOOSE i \in start..Len(s) :
                     /\ \A j \in start..i : s[j] # " "
                     /\ (i = Len(s) \/ s[i + 1] = " ")
    IN  SubSeq(s, start, stop)

Ord(c) == CHOOSE i \in 1..Len(DateChars) : DateChars[i] = c

\* a < b on str: lexicographic by code point, a proper prefix being smaller
RECURSIVE StrLess(_, _)
StrLess(a, b) ==
    IF b = <<>> THEN FALSE
    ELSE IF a = <<>> THEN TRUE
    ELSE IF Head(a) # Head(b) THEN Ord(Head(a)) < Ord(Head(b))
    ELSE StrLess(Tail(a), Tail(b))

---------------------------------------------------------------------------
(* Configuration *)

MINNESOTA_COMPANIES ==
    << [ticker |-> <<"T", "G", "T">>, name |-> <<"T", "a", "r", "g", "e", "t", " ", "C", "o", "r", "p", "o", "r", "a", "t", "i", "o", "n">>, city |-> <<"M", "i", "n", "n", "e", "a", "p", "o", "l", "i", "s">>],
       [ticker |-> <<"M", "M", "M">>, name |-> <<"3", "M", " ", "C", "o", "m", "p", "a", "n", "y">>, city |-> <<"S", "t", ".", " ", "P", "a", "u", "l">>],
       [ticker |-> <<"U", "N", "H">>, name |-> <<"U", "n", "i", "t", "e", "d", "H", "e", "a", "l", "t", "h", " ", "G", "r", "o", "u", "p">>, city |-> <<"M", "i", "n", "n", "e", "t", "o", "n", "k", "a">>] >>

---------------------------------------------------------------------------
(* Upstream HTTP responses, as requests.get delivers them *)

\* requests.get raised (no connection, timeout), or the payload did not parse
Raise(msg) == [raised |-> TRUE, msg |-> msg]

Http(code, body) == [raised |-> FALSE, status_code |-> code, json |-> body]

\* response.raise_for_status() raises
HttpError(resp) == resp.status_code >= 400

\* the try block of a function that calls raise_for_status ends in its except branch
Failed(resp) == resp.raised \/ HttpError(resp)

\* str(e)
ErrorText(resp) == IF resp.raised THEN resp.msg ELSE <<"H", "T", "T", "P", "E", "r", "r", "o", "r">>

\* a raw JSON object's d.get(k): no field of a payload is null
JsonGet(d, k) == IF k \in DOMAIN d THEN Some(d[k]) ELSE None

Min(a, b) == IF a <= b THEN a ELSE b

Digit(n) == DateChars[n + 2]

\* str(n) for a natural number n
RECURSIVE Str(_)
Str(n) == IF n < 10 THEN <<Digit(n)>> ELSE Str(n \div 10) \o <<Digit(n % 10)>>

\* s.zfill(width)
zfill(s, width) ==
    IF Len(s) >= width THEN s ELSE [i \in 1..(width - Len(s)) |-> "0"] \o s

CikWidth == 10

---------------------------------------------------------------------------
(* get_cik_from_ticker *)

\* mutant of get_cik_from_ticker: an all-zero identifier instead of None
get_cik_or_zeros(ticker, resp) ==
    IF Failed(resp) THEN Some(zfill(<<>>, CikWidth))
    ELSE LET entries == resp.json
             hits == {i \in 1..Len(entries) :
                         upper(Get(entries[i], "ticker", <<>>)) = upper(ticker)}
         IN  IF hits = {} THEN Some(zfill(<<>>, CikWidth))
             ELSE Some(zfill(Str(entries[CHOOSE i \in hits : \A j \in hits : i <= j].cik_str),
                             CikWidth))

get_cik_from_ticker(ticker, resp) ==
    IF Failed(resp) THEN None
    ELSE LET entries == resp.json
             hits == {i \in 1..Len(entries) :
                         upper(Get(entries[i], "ticker", <<>>)) = upper(ticker)}
         IN  IF hits = {} THEN None
             ELSE LET entry == entries[CHOOSE i \in hits : \A j \in hits : i <= j]
                  IN  IF "cik_str" \in DOMAIN entry
                      THEN Some(zfill(Str(entry.cik_str), CikWidth))
                      ELSE None

---------------------------------------------------------------------------
(* get_company_info *)

get_company_info(ticker, cik_, resp) ==
    IF Failed(resp) THEN [error |-> ErrorText(resp)]
    ELSE LET data == resp.json
         IN  [cik              |-> cik_,
              name             |-> Get(data, "name", <<>>),
              ticker           |-> upper(ticker),
              sic              |-> Get(data, "sic", <<>>),
              sic_description  |-> Get(data, "sicDescription", <<>>),
              state            |-> Get(data, "stateOfIncorporation", <<>>),
              fiscal_year_end  |-> Get(data, "fiscalYearEnd", <<>>),
              phone            |-> Get(data, "phone", <<>>),
              business_address |-> Get(Get(data, "addresses", EmptyDict),
                                       "business", EmptyDict)]

---------------------------------------------------------------------------
(* get_company_financials *)

\* key=lambda x: x.get("end", "")
EndKey(v) == Get(v, "end", <<>>)

\* mutant of max_by_end: the entry last in array order
last_entry(rest, best) == IF rest = <<>> THEN best ELSE rest[Len(rest)]

\* max(annual, key=...): the first of the entries with the greatest key
RECURSIVE max_by_end(_, _)
max_by_end(rest, best) ==
    IF rest = <<>> THEN best
    ELSE max_by_end(Tail(rest),
                    IF StrLess(EndKey(best), EndKey(Head(rest)))
                    THEN Head(rest) ELSE best)

IsAnnual(v) == JsonGet(v, "form") = Some("10-K")

get_latest(us_gaap, concept) ==
    IF concept \notin DOMAIN us_gaap THEN None
    ELSE LET usd_values == Get(Get(us_gaap[concept], "units", EmptyDict), "USD", <<>>)
             annual == SelectSeq(usd_values, IsAnnual)
         IN  IF Len(annual) > 0
             THEN LET latest == max_by_end(Tail(annual), Head(annual))
                  IN  Some([value      |-> JsonGet(latest, "val"),
                            period_end |-> JsonGet(latest, "end")])
             ELSE None

\* mutant of revenue_of: no fallback to the alternate concept
revenue_primary_only(us_gaap) == get_latest(us_gaap, "Revenues")

revenue_of(us_gaap) ==
    Or(get_latest(us_gaap, "Revenues"),
       get_latest(us_gaap, "RevenueFromContractWithCustomerExcludingAssessedTax"))

get_company_financials(resp) ==
    IF Failed(resp) THEN [error |-> ErrorText(resp)]
    ELSE LET us_gaap == Get(Get(resp.json, "facts", EmptyDict), "us-gaap", EmptyDict)
         IN  [revenue              |-> revenue_of(us_gaap),
              net_income           |-> get_latest(us_gaap, "NetIncomeLoss"),
              total_assets         |-> get_latest(us_gaap, "Assets"),
              cash_and_equivalents |-> get_latest(us_gaap, "CashAndCashEquivalentsAtCarryingValue"),
              stockholders_equity  |-> get_latest(us_gaap, "StockholdersEquity")]

---------------------------------------------------------------------------
(* search_foundation *)

search_terms(company_name) ==
    << company_name \o <<" ", "f", "o", "u", "n", "d", "a", "t", "i", "o", "n">>,
       first_word(company_name) \o <<" ", "f", "o", "u", "n", "d", "a", "t", "i", "o", "n">> >>

SearchLimit == 10

org_matches(org, company_name) ==
    LET org_name == upper(Get(org, "name", <<>>))
        company_word == upper(first_word(company_name))
    IN  Contains(company_word, org_name) /\ Contains(<<"F", "O", "U", "N", "D", "A", "T", "I", "O", "N">>, org_name)

\* mutant of first_match: every result is inspected, not only the first 10
first_match_unlimited(orgs, company_name) ==
    LET hits == {i \in 1..Len(orgs) : org_matches(orgs[i], company_name)}
    IN  IF hits = {} THEN None
        ELSE LET org == orgs[CHOOSE i \in hits : \A j \in hits : i <= j]
             IN  Some([name  |-> JsonGet(org, "name"),
                       ein   |-> JsonGet(org, "ein"),
                       city  |-> JsonGet(org, "city"),
                       state |-> JsonGet(org, "state")])

\* for org in orgs[:10]: ... return {...}
first_match(orgs, company_name) ==
    LET top == SubSeq(orgs, 1, Min(SearchLimit, Len(orgs)))
        hits == {i \in 1..Len(top) : org_matches(top[i], company_name)}
    IN  IF hits = {} THEN None
        ELSE LET org == top[CHOOSE i \in hits : \A j \in hits : i <= j]
             IN  Some([name  |-> JsonGet(org, "name"),
                       ein   |-> JsonGet(org, "ein"),
                       city  |-> JsonGet(org, "city"),
                       state |-> JsonGet(org, "state")])

\* what one pass of the loop over search_terms does with its response:
\* the match to return, or None to go on with the next term
search_step(resp, company_name) ==
    IF resp.status_code = 200
    THEN first_match(Get(resp.json, "organizations", <<>>), company_name)
    ELSE None

---------------------------------------------------------------------------
(* get_foundation_details *)

\* str(foundation_search["ein"])
ein_str(found) == IF found.ein = None THEN <<"N", "o", "n", "e">> ELSE Str(The(found.ein))

FilingsKept == 3

filing_row(f) ==
    [year        |-> JsonGet(f, "tax_prd_yr"),
     revenue     |-> JsonGet(f, "totrevenue"),
     expenses    |-> JsonGet(f, "totfuncexpns"),
     assets      |-> JsonGet(f, "totassetsend"),
     grants_paid |-> JsonGet(f, "contrpdpbks")]

\* mutant of get_foundation_details: the last 3 filings are kept, not the first 3
get_foundation_details_last(ein, resp) ==
    IF resp.raised THEN None
    ELSE IF resp.status_code # 200 THEN None
    ELSE LET data == resp.json
             org == Get(data, "organization", EmptyDict)
             filings == Get(data, "filings_with_data", <<>>)
             kept == SubSeq(filings, Len(filings) - Min(FilingsKept, Len(filings)) + 1,
                            Len(filings))
         IN  Some([name           |-> JsonGet(org, "name"),
                   ein            |-> ein,
                   total_assets   |-> JsonGet(org, "asset_amount"),
                   total_revenue  |-> JsonGet(org, "income_amount"),
                   ruling_date    |-> JsonGet(org, "ruling_date"),
                   recent_filings |-> [i \in 1..Len(kept) |-> filing_row(kept[i])]])

get_foundation_details(ein, resp) ==
    IF resp.raised THEN None
    ELSE IF resp.status_code # 200 THEN None
    ELSE LET data == resp.json
             org == Get(data, "organization", EmptyDict)
             filings == Get(data, "filings_with_data", <<>>)
             kept == SubSeq(filings, 1, Min(FilingsKept, Len(filings)))
         IN  Some([name           |-> JsonGet(org, "name"),
                   ein            |-> ein,
                   total_assets   |-> JsonGet(org, "asset_amount"),
                   total_revenue  |-> JsonGet(org, "income_amount"),
                   ruling_date    |-> JsonGet(org, "ruling_date"),
                   recent_filings |-> [i \in 1..Len(kept) |-> filing_row(kept[i])]])

---------------------------------------------------------------------------
(* calculate_capacity_rating *)

\* money amounts are integers in units of 1/UnitsPerBillion billion dollars
UnitsPerBillion == 2

MajorAbove == 30

LeadershipAbove == 15

PrincipalAbove == 5

\* (financials.get(key) or {}).get("value", 0) or 0
amount_or_zero(fin, key) ==
    LET d == IF GetOpt(fin, key) = None THEN EmptyDict ELSE The(GetOpt(fin, key))
        v == Get(d, "value", Some(0))
    IN  IF v = None THEN 0 ELSE The(v)

\* f"{amount/1e9:.1f}": tenths of a billion, rounded to the nearest, ties to even
tenths_of_billion(amount) ==
    LET n == 10 * amount
        q == n \div UnitsPerBillion
        r == n % UnitsPerBillion
    IN  IF 2 * r < UnitsPerBillion THEN q
        ELSE IF 2 * r > UnitsPerBillion THEN q + 1
        ELSE IF q % 2 = 0 THEN q ELSE q + 1

\* f"...: ${x/1e9:.1f}B" if x else "... unavailable"
rationale_line(amount, label, unavailable) ==
    IF amount # 0
    THEN [text |-> label, tenths |-> tenths_of_billion(amount)]
    ELSE [text |-> unavailable]

\* mutant of rating_of: the boundaries compared with >=
rating_of_inclusive(sum) ==
    IF sum >= MajorAbove * UnitsPerBillion THEN "MAJOR ($1M+)"
    ELSE IF sum >= LeadershipAbove * UnitsPerBillion THEN "LEADERSHIP ($250K-$1M)"
    ELSE IF sum >= PrincipalAbove * UnitsPerBillion THEN "PRINCIPAL ($50K-$250K)"
    ELSE "STANDARD ($10K-$50K)"

\* the tier chosen for cash + net_income (score * UnitsPerBillion)
rating_of(sum) ==
    IF sum > MajorAbove * UnitsPerBillion THEN "MAJOR ($1M+)"
    ELSE IF sum > LeadershipAbove * UnitsPerBillion THEN "LEADERSHIP ($250K-$1M)"
    ELSE IF sum > PrincipalAbove * UnitsPerBillion THEN "PRINCIPAL ($50K-$250K)"
    ELSE "STANDARD ($10K-$50K)"

color_of(sum) ==
    IF sum > MajorAbove * UnitsPerBillion THEN "#27ae60"
    ELSE IF sum > LeadershipAbove * UnitsPerBillion THEN "#f39c12"
    ELSE IF sum > PrincipalAbove * UnitsPerBillion THEN "#3498db"
    ELSE "#95a5a6"

\* score is kept as cash + net_income in units: score * UnitsPerBillion
calculate_capacity_rating(fin) ==
    LET cash == amount_or_zero(fin, "cash_and_equivalents")
        net_income == amount_or_zero(fin, "net_income")
        assets == amount_or_zero(fin, "total_assets")
        score == cash + net_income
    IN  [score     |-> score,
         rating    |-> rating_of(score),
         color     |-> color_of(score),
         rationale |-> << rationale_line(cash, "Cash position", "Cash data unavailable"),
                          rationale_line(net_income, "Net income", "Net income data unavailable"),
                          rationale_line(assets, "Total assets", "Assets data unavailable") >>]

---------------------------------------------------------------------------
(* assess_mission_alignment *)

HealthTerms == {<<"h", "e", "a", "l", "t", "h">>, <<"m", "e", "d", "i", "c", "a", "l">>, <<"p", "h", "a", "r", "m", "a", "c", "e", "u", "t", "i", "c", "a", "l">>, <<"h", "o", "s", "p", "i", "t", "a", "l">>}

RetailTerms == {<<"r", "e", "t", "a", "i", "l">>, <<"s", "t", "o", "r", "e">>, <<"m", "e", "r", "c", "h", "a", "n", "d", "i", "s", "e">>}

ManufacturingTerms == {<<"m", "a", "n", "u", "f", "a", "c", "t", "u", "r", "i", "n", "g">>, <<"c", "h", "e", "m", "i", "c", "a", "l">>, <<"i", "n", "d", "u", "s", "t", "r", "i", "a", "l">>}

HealthPoints == 3

RetailPoints == 2

ManufacturingPoints == 1

LocalPoints == 2

HighFrom == 4

MediumFrom == 2

\* any(term in sic_desc for term in terms)
any_term(terms, sic_desc) == \E term \in terms : Contains(term, sic_desc)

\* mutant of level_of: the boundaries compared with >
level_of_exclusive(alignment_score) ==
    IF alignment_score > HighFrom THEN "HIGH"
    ELSE IF alignment_score > MediumFrom THEN "MEDIUM"
    ELSE "STANDARD"

level_of(alignment_score) ==
    IF alignment_score >= HighFrom THEN "HIGH"
    ELSE IF alignment_score >= MediumFrom THEN "MEDIUM"
    ELSE "STANDARD"

\* mutant of assess_mission_alignment: the industry checks chained with elif
assess_first_industry_only(company) ==
    LET sic_desc == lower(Get(company, "sic_description", <<>>))
        health == any_term(HealthTerms, sic_desc)
        retail == ~health /\ any_term(RetailTerms, sic_desc)
        manufacturing == ~health /\ ~retail /\ any_term(ManufacturingTerms, sic_desc)
        alignment_score ==
            (IF health THEN HealthPoints ELSE 0)
            + (IF retail THEN RetailPoints ELSE 0)
            + (IF manufacturing THEN ManufacturingPoints ELSE 0)
            + LocalPoints
    IN  [level   |-> level_of(alignment_score),
         score   |-> alignment_score,
         factors |->
            (IF health
             THEN <<"Healthcare sector - STRONG alignment with pediatric health mission">>
             ELSE <<>>)
            \o (IF retail
                THEN <<"Retail sector - Strong community presence, cause marketing potential">>
                ELSE <<>>)
            \o (IF manufacturing
                THEN <<"Manufacturing sector - Likely has established CSR programs">>
                ELSE <<>>)
            \o <<"Minnesota headquarters - Local community connection to CCRF">>]

assess_mission_alignment(company) ==
    LET sic_desc == lower(Get(company, "sic_description", <<>>))
        health == any_term(HealthTerms, sic_desc)
        retail == any_term(RetailTerms, sic_desc)
        manufacturing == any_term(ManufacturingTerms, sic_desc)
        alignment_score ==
            (IF health THEN HealthPoints ELSE 0)
            + (IF retail THEN RetailPoints ELSE 0)
            + (IF manufacturing THEN ManufacturingPoints ELSE 0)
            + LocalPoints
        alignment_factors ==
            (IF health
             THEN <<"Healthcare sector - STRONG alignment with pediatric health mission">>
             ELSE <<>>)
            \o (IF retail
                THEN <<"Retail sector - Strong community presence, cause marketing potential">>
                ELSE <<>>)
            \o (IF manufacturing
                THEN <<"Manufacturing sector - Likely has established CSR programs">>
                ELSE <<>>)
            \o <<"Minnesota headquarters - Local community connection to CCRF">>
    IN  [level   |-> level_of(alignment_score),
         score   |-> alignment_score,
         factors |-> alignment_factors]

---------------------------------------------------------------------------
(* main: the priority ranking *)

\* mutant of IsValid: a result whose facts fetch failed counts as failed too
IsValidWithFacts(r) ==
    "error" \notin DOMAIN r /\ "error" \notin DOMAIN r.financials

\* [r for r in results if "error" not in r]
IsValid(r) == "error" \notin DOMAIN r

\* mutant of insert_desc: the new element goes before the elements with an equal key
RECURSIVE insert_before_equal(_, _)
insert_before_equal(sorted, r) ==
    IF sorted = <<>> THEN <<r>>
    ELSE IF Head(sorted).capacity.score > r.capacity.score
         THEN <<Head(sorted)>> \o insert_before_equal(Tail(sorted), r)
         ELSE <<r>> \o sorted

\* list.insert keeping the key non-increasing, after every element with an equal key
RECURSIVE insert_desc(_, _)
insert_desc(sorted, r) ==
    IF sorted = <<>> THEN <<r>>
    ELSE IF Head(sorted).capacity.score >= r.capacity.score
         THEN <<Head(sorted)>> \o insert_desc(Tail(sorted), r)
         ELSE <<r>> \o sorted

\* sorted(valid, key=lambda x: x["capacity"]["score"], reverse=True): a stable sort
RECURSIVE sorted_by_score(_)
sorted_by_score(valid) ==
    IF valid = <<>> THEN <<>>
    ELSE insert_desc(sorted_by_score(SubSeq(valid, 1, Len(valid) - 1)), valid[Len(valid)])

---------------------------------------------------------------------------
(* research_company / research_all_companies / main *)

NumCompanies == Len(MINNESOTA_COMPANIES)

Company(i) == MINNESOTA_COMPANIES[i]

\* mutant of cik_error: the failure record also carries the symbol
cik_error_with_symbol(ticker) ==
    [ticker |-> ticker, error |-> <<"C", "o", "u", "l", "d", " ", "n", "o", "t", " ", "f", "i", "n", "d", " ", "C", "I", "K", " ", "f", "o", "r", " ">> \o ticker]

\* f"Could not find CIK for {ticker}"
cik_error(ticker) == [error |-> <<"C", "o", "u", "l", "d", " ", "n", "o", "t", " ", "f", "i", "n", "d", " ", "C", "I", "K", " ", "f", "o", "r", " ">> \o ticker]

Call(op, arg, resp) == [co |-> idx, op |-> op, arg |-> arg, resp |-> resp]

\* mutant of Return: a failure record ends the loop over the companies
ReturnOrAbort(result) ==
    /\ results' = Append(results, result)
    /\ idx' = idx + 1
    /\ pc' = IF idx + 1 > NumCompanies \/ "error" \in DOMAIN result THEN "rank" ELSE "cik"
    /\ term_i' = 1
    /\ cik' = None
    /\ company_info' = EmptyDict
    /\ financials' = EmptyDict
    /\ foundation_search' = None
    /\ foundation_details' = None
    /\ UNCHANGED sorted_results

\* research_company returns result; research_all_companies appends it and goes on
\* with the next company, or returns the list to main
Return(result) ==
    /\ results' = Append(results, result)
    /\ idx' = idx + 1
    /\ pc' = IF idx + 1 > NumCompanies THEN "rank" ELSE "cik"
    /\ term_i' = 1
    /\ cik' = None
    /\ company_info' = EmptyDict
    /\ financials' = EmptyDict
    /\ foundation_search' = None
    /\ foundation_details' = None
    /\ UNCHANGED sorted_results

\* cik = get_cik_from_ticker(ticker); if not cik: return {"error": ...}
FetchCik(Responses) ==
    /\ pc = "cik"
    /\ \E resp \in Responses :
        LET ticker == Company(idx).ticker
            c == get_cik_from_ticker(ticker, resp)
        IN  /\ calls' = Append(calls, Call("cik", ticker, resp))
            /\ IF c = None
               THEN Return(cik_error(ticker))
               ELSE /\ cik' = c
                    /\ pc' = "info"
                    /\ UNCHANGED <<idx, term_i, company_info, financials,
                                   foundation_search, foundation_details,
                                   results, sorted_results>>

\* company_info = get_company_info(ticker, cik); if "error" in company_info: return it;
\* Responses[i] being what the filings API may answer about the i-th company
FetchInfo(Responses) ==
    /\ pc = "info"
    /\ \E resp \in Responses[idx] :
        LET info == get_company_info(Company(idx).ticker, The(cik), resp)
        IN  /\ calls' = Append(calls, Call("info", The(cik), resp))
            /\ IF "error" \in DOMAIN info
               THEN Return(info)
               ELSE /\ company_info' = info
                    /\ pc' = "financials"
                    /\ UNCHANGED <<idx, term_i, cik, financials, foundation_search,
                                   foundation_details, results, sorted_results>>

\* financials = get_company_financials(cik)
FetchFinancials(Responses) ==
    /\ pc = "financials"
    /\ \E resp \in Responses :
        /\ calls' = Append(calls, Call("financials", The(cik), resp))
        /\ financials' = get_company_financials(resp)
        /\ pc' = "search"
        /\ term_i' = 1
        /\ UNCHANGED <<idx, cik, company_info, foundation_search,
                       foundation_details, results, sorted_results>>

\* search_foundation(company_config["name"]): one pass of its loop over search_terms,
\* Responses[i][t] being what the registry may answer to the t-th term for the
\* i-th company
SearchQuery(Responses) ==
    /\ pc = "search"
    /\ \E resp \in Responses[idx][term_i] :
        LET company_name == Company(idx).name
            terms == search_terms(company_name)
            found == IF resp.raised THEN None ELSE search_step(resp, company_name)
        IN  /\ calls' = Append(calls, Call("search", terms[term_i], resp))
            /\ IF resp.raised
               THEN /\ foundation_search' = None
                    /\ pc' = "assemble"
                    /\ UNCHANGED term_i
               ELSE IF found # None
               THEN /\ foundation_search' = found
                    /\ pc' = "details"
                    /\ UNCHANGED term_i
               ELSE IF term_i < Len(terms)
               THEN /\ term_i' = term_i + 1
                    /\ UNCHANGED <<pc, foundation_search>>
               ELSE /\ foundation_search' = None
                    /\ pc' = "assemble"
                    /\ UNCHANGED term_i
            /\ UNCHANGED <<idx, cik, company_info, financials, foundation_details,
                           results, sorted_results>>

\* if foundation_search: foundation_details = get_foundation_details(str(...["ein"])),
\* Responses[i] being what the registry may answer about the i-th company's foundation
FetchDetails(Responses) ==
    /\ pc = "details"
    /\ \E resp \in Responses[idx] :
        LET ein == ein_str(The(foundation_search))
        IN  /\ calls' = Append(calls, Call("details", ein, resp))
            /\ foundation_details' = get_foundation_details(ein, resp)
            /\ pc' = "assemble"
            /\ UNCHANGED <<idx, term_i, cik, company_info, financials,
                           foundation_search, results, sorted_results>>

MaxClock == 2

\* datetime.now() does not run backwards: no earlier than the last capture
EarliestNow ==
    LET stamps == {results[i].researched_at : i \in {j \in 1..Len(results) : IsValid(results[j])}}
    IN  IF stamps = {} THEN 1 ELSE CHOOSE s \in stamps : \A u \in stamps : u <= s

\* mutant of research_result: the capture time also marks the financial snapshot
research_result_dated(now) ==
    [ticker        |-> Company(idx).ticker,
     config        |-> Company(idx),
     company       |-> company_info,
     financials    |-> [k \in DOMAIN financials \cup {"fetched_at"} |->
                           IF k = "fetched_at" THEN Some(now) ELSE financials[k]],
     foundation    |-> [search |-> foundation_search, details |-> foundation_details],
     capacity      |-> calculate_capacity_rating(financials),
     alignment     |-> assess_mission_alignment(company_info),
     researched_at |-> now]

\* the successful result, captured at time now
research_result(now) ==
    [ticker        |-> Company(idx).ticker,
     config        |-> Company(idx),
     company       |-> company_info,
     financials    |-> financials,
     foundation    |-> [search |-> foundation_search, details |-> foundation_details],
     capacity      |-> calculate_capacity_rating(financials),
     alignment     |-> assess_mission_alignment(company_info),
     researched_at |-> now]

\* capacity = ...; alignment = ...; return {...}
Assemble ==
    /\ pc = "assemble"
    /\ \E now \in EarliestNow..MaxClock : Return(research_result(now))
    /\ UNCHANGED calls

\* valid = [r for r in results if "error" not in r]; sorted_results = sorted(valid, ...)
Rank ==
    /\ pc = "rank"
    /\ sorted_results' = sorted_by_score(SelectSeq(results, IsValid))
    /\ pc' = "done"
    /\ UNCHANGED <<idx, term_i, cik, company_info, financials, foundation_search,
                   foundation_details, results, calls>>

---------------------------------------------------------------------------
(* Upstream answers of the full run *)

ConnectionError == <<"C", "o", "n", "n", "e", "c", "t", "i", "o", "n", "E", "r", "r", "o", "r">>

\* company_tickers.json: the registry's table, and a table without the three symbols
TickerTable ==
    << [ticker |-> <<"A", "A", "P", "L">>, cik_str |-> 320193],
       [ticker |-> <<"t", "g", "t">>, cik_str |-> 27419],
       [ticker |-> <<"M", "M", "M">>, cik_str |-> 66740],
       [ticker |-> <<"U", "n", "h">>, cik_str |-> 731766] >>

OtherTable == << [ticker |-> <<"A", "A", "P", "L">>, cik_str |-> 320193] >>

CikResponses ==
    {Http(200, TickerTable), Http(200, OtherTable), Raise(ConnectionError)}

SicDescriptions ==
    << <<"R", "e", "t", "a", "i", "l", "-", "V", "a", "r", "i", "e", "t", "y", " ", "S", "t", "o", "r", "e", "s">>,
       <<"S", "u", "r", "g", "i", "c", "a", "l", " ", "&", " ", "M", "e", "d", "i", "c", "a", "l", " ", "I", "n", "s", "t", "r", "u", "m", "e", "n", "t", "s", " ", "&", " ", "A", "p", "p", "a", "r", "a", "t", "u", "s">>,
       <<"H", "o", "s", "p", "i", "t", "a", "l", " ", "&", " ", "M", "e", "d", "i", "c", "a", "l", " ", "S", "e", "r", "v", "i", "c", "e", " ", "P", "l", "a", "n", "s">> >>

IdentityJson(i, description) ==
    [name |-> upper(Company(i).name), sicDescription |-> description,
     stateOfIncorporation |-> <<"M", "N">>]

InfoResponses ==
    [i \in 1..NumCompanies |->
        {Http(200, IdentityJson(i, SicDescriptions[i])), Http(404, EmptyDict)}]

Entry(form, end, val) == [form |-> form, end |-> end, val |-> val]

Series(usd_values) == [units |-> [USD |-> usd_values]]

FactsJson(us_gaap) == [k \in {"facts"} |-> [t \in {"us-gaap"} |-> us_gaap]]

\* facts whose latest annual cash and net income are the given amounts
FactsOf(cash, net_income) ==
    FactsJson(
        [c \in {"CashAndCashEquivalentsAtCarryingValue", "NetIncomeLoss"} |->
            IF c = "NetIncomeLoss"
            THEN Series(<< Entry("10-K", <<"2", "0", "2", "3", "-", "1", "2", "-", "3", "1">>, net_income),
                           Entry("10-Q", <<"2", "0", "2", "4", "-", "0", "3", "-", "3", "1">>, 0) >>)
            ELSE Series(<< Entry("10-K", <<"2", "0", "2", "2", "-", "1", "2", "-", "3", "1">>, 0),
                           Entry("10-K", <<"2", "0", "2", "3", "-", "1", "2", "-", "3", "1">>, cash) >>)])

\* cash $10B, net income $25B (score 35), and cash $2B, net income $1B (score 3)
FactsResponses ==
    {Raise(ConnectionError),
     Http(200, FactsOf(10 * UnitsPerBillion, 25 * UnitsPerBillion)),
     Http(200, FactsOf(2 * UnitsPerBillion, 1 * UnitsPerBillion))}

Org(name, ein) == [name |-> name, ein |-> ein, city |-> <<"M", "i", "n", "n", "e", "a", "p", "o", "l", "i", "s">>, state |-> <<"M", "N">>]

FoundationOrg(i, ein) == Org(upper(first_word(Company(i).name)) \o <<" ", "F", "O", "U", "N", "D", "A", "T", "I", "O", "N">>, ein)

OrgsJson(orgs) == [organizations |-> orgs]

\* the first term is answered by an error, a list without a match or a list with
\* one; the second by a failure (a 404, for the second company an error) or a list
\* with a match
SearchResponses ==
    [i \in 1..NumCompanies |-> [t \in 1..2 |->
        IF t = 1
        THEN {Raise(ConnectionError),
              Http(200, OrgsJson(<< Org(<<"C", "o", "m", "m", "u", "n", "i", "t", "y", " ", "F", "o", "u", "n", "d", "a", "t", "i", "o", "n">>, 10 * t) >>)),
              Http(200, OrgsJson(<< Org(<<"C", "o", "m", "m", "u", "n", "i", "t", "y", " ", "F", "o", "u", "n", "d", "a", "t", "i", "o", "n">>, 10 * t),
                                    FoundationOrg(i, 10 * t + i) >>))}
        ELSE {IF i = 2 THEN Raise(ConnectionError) ELSE Http(404, OrgsJson(<<>>)),
              Http(200, OrgsJson(<< Org(<<"C", "o", "m", "m", "u", "n", "i", "t", "y", " ", "F", "o", "u", "n", "d", "a", "t", "i", "o", "n">>, 10 * t),
                                    FoundationOrg(i, 10 * t + i) >>))}]]

Filing(year) == [tax_prd_yr |-> year, totrevenue |-> 100 + year, contrpdpbks |-> year]

DetailsJson(filings) ==
    [organization |-> [name |-> <<"F", "O", "U", "N", "D", "A", "T", "I", "O", "N">>, asset_amount |-> 1000],
     filings_with_data |-> filings]

\* the details fetch fails (a 404, for the second company an error) or succeeds
DetailsResponses ==
    [i \in 1..NumCompanies |->
        {IF i = 2 THEN Raise(ConnectionError) ELSE Http(404, DetailsJson(<<>>)),
         Http(200, DetailsJson(<< Filing(2023), Filing(2022), Filing(2021), Filing(2020) >>))}]

---------------------------------------------------------------------------
(* The full run: main() *)

Init ==
    /\ idx = 1
    /\ pc = "cik"
    /\ term_i = 1
    /\ cik = None
    /\ company_info = EmptyDict
    /\ financials = EmptyDict
    /\ foundation_search = None
    /\ foundation_details = None
    /\ results = <<>>
    /\ sorted_results = <<>>
    /\ calls = <<>>

Next ==
    \/ FetchCik(CikResponses)
    \/ FetchInfo(InfoResponses)
    \/ FetchFinancials(FactsResponses)
    \/ SearchQuery(SearchResponses)
    \/ FetchDetails(DetailsResponses)
    \/ Assemble
    \/ Rank

Spec == Init /\ [][Next]_vars

---------------------------------------------------------------------------
(* States inside the run, from which one function is exercised on many inputs. *)
(* The companies before the i-th all failed identifier resolution on a         *)
(* connection error; the i-th got the answers listed.                          *)

FailedCikCall(j) ==
    [co |-> j, op |-> "cik", arg |-> Company(j).ticker, resp |-> Raise(ConnectionError)]

CallsBefore(i) == [j \in 1..(i - 1) |-> FailedCikCall(j)]

ResultsBefore(i) == [j \in 1..(i - 1) |-> cik_error(Company(j).ticker)]

CikOf(i) == get_cik_from_ticker(Company(i).ticker, Http(200, TickerTable))

\* the i-th company is about to fetch its facts, its identity being info_resp's
AtFinancials(i, info_resp) ==
    /\ idx = i
    /\ pc = "financials"
    /\ term_i = 1
    /\ cik = CikOf(i)
    /\ company_info = get_company_info(Company(i).ticker, The(CikOf(i)), info_resp)
    /\ financials = EmptyDict
    /\ foundation_search = None
    /\ foundation_details = None
    /\ results = ResultsBefore(i)
    /\ sorted_results = <<>>
    /\ calls = CallsBefore(i)
               \o << [co |-> i, op |-> "cik", arg |-> Company(i).ticker,
                      resp |-> Http(200, TickerTable)],
                     [co |-> i, op |-> "info", arg |-> The(CikOf(i)), resp |-> info_resp] >>

\* the i-th company is about to search its foundation, its facts being facts_resp's
AtSearch(i, info_resp, facts_resp) ==
    /\ idx = i
    /\ pc = "search"
    /\ term_i = 1
    /\ cik = CikOf(i)
    /\ company_info = get_company_info(Company(i).ticker, The(CikOf(i)), info_resp)
    /\ financials = get_company_financials(facts_resp)
    /\ foundation_search = None
    /\ foundation_details = None
    /\ results = ResultsBefore(i)
    /\ sorted_results = <<>>
    /\ calls = CallsBefore(i)
               \o << [co |-> i, op |-> "cik", arg |-> Company(i).ticker,
                      resp |-> Http(200, TickerTable)],
                     [co |-> i, op |-> "info", arg |-> The(CikOf(i)), resp |-> info_resp],
                     [co |-> i, op |-> "financials", arg |-> The(CikOf(i)),
                      resp |-> facts_resp] >>

---------------------------------------------------------------------------
(* get_company_financials on many fact sets *)

MaxEntries == 2

MaxVal == 2

Forms == {"10-K", "10-Q"}

EndDates == {<<"2", "0", "2", "2", "-", "1", "2", "-", "3", "1">>, <<"2", "0", "2", "3", "-", "0", "1", "-", "2", "8">>, <<"2", "0", "2", "3", "-", "1", "2", "-", "3", "1">>}

\* the entries of a USD series: with and without a period-end date
Entries ==
    {Entry(f, e, v) : f \in Forms, e \in EndDates, v \in 1..MaxVal}
    \cup {[form |-> f, val |-> v] : f \in Forms, v \in 1..MaxVal}

SeriesUpTo(n) == UNION {[1..k -> Entries] : k \in 0..n}

\* what us_gaap may hold for a concept: nothing (None), no USD unit, or a USD series
ConceptOptions ==
    {None, Some([units |-> [EUR |-> <<>>]])}
    \cup {Some(Series(s)) : s \in SeriesUpTo(MaxEntries)}

\* annual entries for 2023 (first) and 2022, and a later quarterly entry
MixedSeries ==
    Series(<< Entry("10-K", <<"2", "0", "2", "3", "-", "1", "2", "-", "3", "1">>, 9), Entry("10-K", <<"2", "0", "2", "2", "-", "1", "2", "-", "3", "1">>, 8),
              Entry("10-Q", <<"2", "0", "2", "4", "-", "0", "3", "-", "3", "1">>, 7) >>)

FewConceptOptions ==
    {None,
     Some(Series(<< Entry("10-Q", <<"2", "0", "2", "3", "-", "1", "2", "-", "3", "1">>, 7) >>)),
     Some(Series(<< Entry("10-K", <<"2", "0", "2", "2", "-", "1", "2", "-", "3", "1">>, 8) >>)),
     Some(MixedSeries)}

TrackedConcepts ==
    {"Revenues", "RevenueFromContractWithCustomerExcludingAssessedTax", "NetIncomeLoss",
     "Assets", "CashAndCashEquivalentsAtCarryingValue", "StockholdersEquity"}

\* us_gaap with the three options for Revenues, the alternate concept and the others
GaapOf(revenues, alternate, others) ==
    LET option(c) == IF c = "Revenues" THEN revenues
                     ELSE IF c = "RevenueFromContractWithCustomerExcludingAssessedTax"
                     THEN alternate
                     ELSE others
    IN  [c \in {t \in TrackedConcepts : option(t) # None} |-> The(option(c))]

ManyFactsResponses ==
    {Raise(ConnectionError)}
    \cup {Http(200, FactsJson(GaapOf(r, a, o))) :
            r \in ConceptOptions, a \in FewConceptOptions, o \in {None, Some(MixedSeries)}}

InitFin == AtFinancials(1, Http(200, IdentityJson(1, SicDescriptions[1])))

NextFin == FetchFinancials(ManyFactsResponses)

SpecFin == InitFin /\ [][NextFin]_vars

---------------------------------------------------------------------------
(* The scorers on many inputs *)

\* the i-th company is about to compute its ratings: its foundation search ended
\* on a connection error
AtAssemble(i, info_resp, facts_resp) ==
    /\ idx = i
    /\ pc = "assemble"
    /\ term_i = 1
    /\ cik = CikOf(i)
    /\ company_info = get_company_info(Company(i).ticker, The(CikOf(i)), info_resp)
    /\ financials = get_company_financials(facts_resp)
    /\ foundation_search = None
    /\ foundation_details = None
    /\ results = ResultsBefore(i)
    /\ sorted_results = <<>>
    /\ calls = CallsBefore(i)
               \o << [co |-> i, op |-> "cik", arg |-> Company(i).ticker,
                      resp |-> Http(200, TickerTable)],
                     [co |-> i, op |-> "info", arg |-> The(CikOf(i)), resp |-> info_resp],
                     [co |-> i, op |-> "financials", arg |-> The(CikOf(i)),
                      resp |-> facts_resp],
                     [co |-> i, op |-> "search", arg |-> search_terms(Company(i).name)[1],
                      resp |-> Raise(ConnectionError)] >>

MaxLoss == 2

\* amounts from a small loss up to just above the highest tier boundary
Amounts == (0 - MaxLoss)..(MajorAbove * UnitsPerBillion + 1)

\* what the facts may say about an amount: no such concept (None), an annual entry
\* without a value (Some(None)), or an annual entry with a value
AmountOptions == {None, Some(None)} \cup {Some(Some(a)) : a \in Amounts}

AmountSeries(opt) ==
    IF The(opt) = None
    THEN Series(<< [form |-> "10-K", end |-> <<"2", "0", "2", "3", "-", "1", "2", "-", "3", "1">>] >>)
    ELSE Series(<< Entry("10-K", <<"2", "0", "2", "3", "-", "1", "2", "-", "3", "1">>, The(The(opt))) >>)

CapacityFacts(cash, net_income, assets) ==
    LET option(c) == IF c = "CashAndCashEquivalentsAtCarryingValue" THEN cash
                     ELSE IF c = "NetIncomeLoss" THEN net_income
                     ELSE assets
        concepts == {"CashAndCashEquivalentsAtCarryingValue", "NetIncomeLoss", "Assets"}
    IN  FactsJson([c \in {t \in concepts : option(t) # None} |-> AmountSeries(option(c))])

MaxWords == 2

Vocabulary ==
    {<<"H", "o", "s", "p", "i", "t", "a", "l">>, <<"M", "E", "D", "I", "C", "A", "L">>, <<"H", "e", "a", "l", "t", "h">>, <<"P", "h", "a", "r", "m", "a", "c", "e", "u", "t", "i", "c", "a", "l">>,
     <<"R", "e", "t", "a", "i", "l", "-", "V", "a", "r", "i", "e", "t", "y">>, <<"S", "t", "o", "r", "e", "s">>, <<"M", "e", "r", "c", "h", "a", "n", "d", "i", "s", "e">>, <<"R", "e", "s", "t", "o", "r", "e", "d">>,
     <<"M", "a", "n", "u", "f", "a", "c", "t", "u", "r", "i", "n", "g">>, <<"C", "h", "e", "m", "i", "c", "a", "l", "s">>, <<"I", "N", "D", "U", "S", "T", "R", "I", "A", "L">>, <<"S", "e", "r", "v", "i", "c", "e", "s">>, <<"&">>}

\* " ".join(words)
RECURSIVE join(_)
join(words) ==
    IF words = <<>> THEN <<>>
    ELSE IF Len(words) = 1 THEN words[1]
    ELSE words[1] \o <<" ">> \o join(Tail(words))

Descriptions == {join(ws) : ws \in UNION {[1..k -> Vocabulary] : k \in 0..MaxWords}}

InitScore ==
    \/ \E cash \in AmountOptions, net_income \in AmountOptions,
          assets \in {None, Some(Some(0)), Some(Some(3 * UnitsPerBillion))} :
          AtAssemble(1, Http(200, IdentityJson(1, SicDescriptions[1])),
                     Http(200, CapacityFacts(cash, net_income, assets)))
    \/ \E i \in 1..NumCompanies :
          AtAssemble(i, Http(200, IdentityJson(i, SicDescriptions[i])),
                     Raise(ConnectionError))
    \/ \E description \in Descriptions :
          AtAssemble(2, Http(200, IdentityJson(2, description)),
                     Http(200, CapacityFacts(None, None, None)))

NextScore == Assemble

SpecScore == InitScore /\ [][NextScore]_vars

---------------------------------------------------------------------------
(* search_foundation on many registry answers *)

MaxOrgs == 11

\* names that hold the company's first word and "foundation", in two spellings
MatchName(i, p) ==
    IF p % 2 = 0
    THEN upper(first_word(Company(i).name)) \o <<" ", "F", "O", "U", "N", "D", "A", "T", "I", "O", "N">>
    ELSE <<"T", "h", "e", " ">> \o first_word(Company(i).name) \o <<" ", "F", "o", "u", "n", "d", "a", "t", "i", "o", "n", " ", "I", "n", "c">>

\* organizations that must not be accepted: only the word, only "foundation", no name
Decoy(i, p, ein) ==
    IF p % 3 = 0 THEN Org(first_word(Company(i).name) \o <<" ", "S", "t", "o", "r", "e", "s", " ", "I", "n", "c">>, ein)
    ELSE IF p % 3 = 1 THEN Org(<<"C", "o", "m", "m", "u", "n", "i", "t", "y", " ", "F", "o", "u", "n", "d", "a", "t", "i", "o", "n">>, ein)
    ELSE [ein |-> ein, city |-> <<"S", "t", ".", " ", "P", "a", "u", "l">>]

\* n organizations, those at the positions in matches acceptable; the ein tells the
\* term (hundreds) and the position
OrgList(i, t, n, matches) ==
    [p \in 1..n |-> IF p \in matches
                    THEN Org(MatchName(i, p), 100 * t + p)
                    ELSE Decoy(i, p, 100 * t + p)]

ManySearchResponses ==
    [i \in 1..NumCompanies |-> [t \in 1..2 |->
        {Raise(ConnectionError), Http(404, OrgsJson(<<>>)), Http(200, EmptyDict)}
        \cup IF t = 1
             THEN {Http(200, OrgsJson(OrgList(i, t, n, {m1, m2}))) :
                      n \in 0..MaxOrgs, m1 \in 0..MaxOrgs, m2 \in 0..MaxOrgs}
             ELSE {Http(200, OrgsJson(OrgList(i, t, MaxOrgs, {m}))) : m \in 0..MaxOrgs}]]

InitSearch ==
    \E i \in 1..NumCompanies :
        AtSearch(i, Http(200, IdentityJson(i, SicDescriptions[i])), Raise(ConnectionError))

NextSearch == SearchQuery(ManySearchResponses)

SpecSearch == InitSearch /\ [][NextSearch]_vars

---------------------------------------------------------------------------
(* get_foundation_details on many filing histories *)

\* the i-th company is about to fetch its foundation's details: the first search
\* phrase was answered by search_resp, which holds a match
AtDetails(i, search_resp) ==
    /\ idx = i
    /\ pc = "details"
    /\ term_i = 1
    /\ cik = CikOf(i)
    /\ company_info = get_company_info(Company(i).ticker, The(CikOf(i)),
                                       Http(200, IdentityJson(i, SicDescriptions[i])))
    /\ financials = get_company_financials(Raise(ConnectionError))
    /\ foundation_search = search_step(search_resp, Company(i).name)
    /\ foundation_details = None
    /\ results = ResultsBefore(i)
    /\ sorted_results = <<>>
    /\ calls = CallsBefore(i)
               \o << [co |-> i, op |-> "cik", arg |-> Company(i).ticker,
                      resp |-> Http(200, TickerTable)],
                     [co |-> i, op |-> "info", arg |-> The(CikOf(i)),
                      resp |-> Http(200, IdentityJson(i, SicDescriptions[i]))],
                     [co |-> i, op |-> "financials", arg |-> The(CikOf(i)),
                      resp |-> Raise(ConnectionError)],
                     [co |-> i, op |-> "search", arg |-> search_terms(Company(i).name)[1],
                      resp |-> search_resp] >>

MaxFilings == 4

\* tax years a filing may be about
FilingYears == {2021, 2022, 2023}

\* a filing that reports every figure, and one that reports only its year
FullFiling(year) ==
    [tax_prd_yr |-> year, totrevenue |-> 100 + year, totfuncexpns |-> 50 + year,
     totassetsend |-> 900 + year, contrpdpbks |-> year - 2000]

FilingOptions == {FullFiling(y) : y \in FilingYears} \cup {[tax_prd_yr |-> 2020]}

\* histories of up to MaxFilings filings in any order of years
FilingLists == UNION {[1..n -> FilingOptions] : n \in 0..MaxFilings}

\* the details fetch fails, answers without a filing history, or answers with one
ManyDetailsResponses ==
    [i \in 1..NumCompanies |->
        {Raise(ConnectionError), Http(404, DetailsJson(<<>>)),
         Http(200, [organization |-> [name |-> <<"F", "O", "U", "N", "D", "A", "T", "I", "O", "N">>]])}
        \cup {Http(200, DetailsJson(filings)) : filings \in FilingLists}]

InitDetails ==
    \E i \in 1..NumCompanies :
        AtDetails(i, Http(200, OrgsJson(<< FoundationOrg(i, 40 + i) >>)))

NextDetails == FetchDetails(ManyDetailsResponses)

SpecDetails == InitDetails /\ [][NextDetails]_vars

---------------------------------------------------------------------------
(* The full run on fewer upstream answers *)

\* the registry's table arrives or the call fails
FewCikResponses == {Http(200, TickerTable), Raise(ConnectionError)}

\* the facts arrive, with a score of 35 or of 3
FewFactsResponses ==
    {Http(200, FactsOf(10 * UnitsPerBillion, 25 * UnitsPerBillion)),
     Http(200, FactsOf(2 * UnitsPerBillion, 1 * UnitsPerBillion))}

NextReplay ==
    \/ FetchCik(FewCikResponses)
    \/ FetchInfo(InfoResponses)
    \/ FetchFinancials(FewFactsResponses)
    \/ SearchQuery(SearchResponses)
    \/ FetchDetails(DetailsResponses)
    \/ Assemble
    \/ Rank

SpecReplay == Init /\ [][NextReplay]_vars

---------------------------------------------------------------------------
(* Properties of get_company_financials (SpecFin) *)

\* the facts fetch has just returned
FactsFetched == pc = "search" /\ term_i = 1 /\ calls[Len(calls)].op = "financials"

LastResp == calls[Len(calls)].resp

\* the facts answer was usable: the call did not end in the except branch
FactsUsable == FactsFetched /\ ~LastResp.raised /\ LastResp.status_code = 200

LastGaap == LastResp.json["facts"]["us-gaap"]

\* the USD entries of a concept that come from an annual report, in array order
AnnualEntries(gaap, concept) ==
    IF concept \in DOMAIN gaap /\ "USD" \in DOMAIN gaap[concept].units
    THEN SelectSeq(gaap[concept].units.USD, LAMBDA v : v.form = "10-K")
    ELSE <<>>

\* the calendar order of the period-end dates in use; no date comes first
Chrono(v) ==
    IF "end" \notin DOMAIN v THEN 0
    ELSE IF v.end = <<"2", "0", "2", "2", "-", "1", "2", "-", "3", "1">> THEN 1
    ELSE IF v.end = <<"2", "0", "2", "3", "-", "0", "1", "-", "2", "8">> THEN 2
    ELSE IF v.end = <<"2", "0", "2", "3", "-", "1", "2", "-", "3", "1">> THEN 3
    ELSE 4

\* got is the value and period end of an entry of annual with the greatest period end
IsLatestOf(got, annual) ==
    /\ got # None
    /\ \E i \in 1..Len(annual) :
        /\ The(got).value = Some(annual[i].val)
        /\ The(got).period_end = JsonGet(annual[i], "end")
        /\ \A j \in 1..Len(annual) : Chrono(annual[j]) <= Chrono(annual[i])

DirectConcepts ==
    [net_income |-> "NetIncomeLoss", total_assets |-> "Assets",
     cash_and_equivalents |-> "CashAndCashEquivalentsAtCarryingValue",
     stockholders_equity |-> "StockholdersEquity"]

\* C2: for every tracked concept and every fact set, the selected value comes from a
\* USD 10-K entry whose period end is the greatest among the concept's USD 10-K
\* entries, whatever their array order; a concept whose key is missing or that has
\* no USD 10-K entry is absent, and the extraction reports no error.
C2_LatestAnnual ==
    FactsUsable =>
        /\ "error" \notin DOMAIN financials
        /\ \A field \in DOMAIN DirectConcepts :
            LET annual == AnnualEntries(LastGaap, DirectConcepts[field])
            IN  IF annual = <<>>
                THEN financials[field] = None
                ELSE IsLatestOf(financials[field], annual)
        /\ \A concept \in TrackedConcepts :
            LET annual == AnnualEntries(LastGaap, concept)
            IN  IF annual = <<>>
                THEN get_latest(LastGaap, concept) = None
                ELSE IsLatestOf(get_latest(LastGaap, concept), annual)

\* C2 witness: total assets has 10-K entries for 2023 (first) and 2022 and a later
\* 10-Q entry, and the 2023 annual value was selected
C2_Witness ==
    /\ FactsUsable
    /\ Len(AnnualEntries(LastGaap, "Assets")) = 2
    /\ financials.total_assets = Some([value |-> Some(9), period_end |-> Some(<<"2", "0", "2", "3", "-", "1", "2", "-", "3", "1">>)])

\* C3: revenue is the latest annual value of Revenues when Revenues has a USD 10-K
\* entry; else the latest annual value of the alternate concept when that has one;
\* else absent.
C3_RevenueFallback ==
    FactsUsable =>
        LET primary == AnnualEntries(LastGaap, "Revenues")
            alternate == AnnualEntries(LastGaap,
                             "RevenueFromContractWithCustomerExcludingAssessedTax")
        IN  IF primary # <<>> THEN IsLatestOf(financials.revenue, primary)
            ELSE IF alternate # <<>> THEN IsLatestOf(financials.revenue, alternate)
            ELSE financials.revenue = None

\* C3 witness: Revenues is reported, but only in quarterly entries, and the revenue
\* is the alternate concept's latest annual value
C3_Witness ==
    /\ FactsUsable
    /\ "Revenues" \in DOMAIN LastGaap
    /\ AnnualEntries(LastGaap, "Revenues") = <<>>
    /\ "USD" \in DOMAIN LastGaap["Revenues"].units
    /\ Len(LastGaap["Revenues"].units.USD) > 0
    /\ financials.revenue = Some([value |-> Some(9), period_end |-> Some(<<"2", "0", "2", "3", "-", "1", "2", "-", "3", "1">>)])

---------------------------------------------------------------------------
(* Properties of the scorers (SpecScore) *)

ValidResults == {i \in 1..Len(results) : "error" \notin DOMAIN results[i]}

\* the amount a financial snapshot holds for a concept; 0 when the facts fetch failed,
\* the concept is absent or its value is null
AmountOf(fin, key) ==
    IF key \in DOMAIN fin /\ fin[key] # None /\ The(fin[key]).value # None
    THEN The(The(fin[key]).value)
    ELSE 0

\* C4: the capacity score is cash + net income, each missing or null input counting
\* as 0 and total assets not contributing, and the tier follows by strict comparison:
\* MAJOR iff s > 30e9, LEADERSHIP iff 15e9 < s <= 30e9, PRINCIPAL iff 5e9 < s <= 15e9,
\* STANDARD iff s <= 5e9 (amounts in units of 1/UnitsPerBillion billion dollars).
C4_CapacityTiers ==
    \A i \in ValidResults :
        LET r == results[i]
            s == AmountOf(r.financials, "cash_and_equivalents")
                 + AmountOf(r.financials, "net_income")
        IN  /\ r.capacity.score = s
            /\ r.capacity.rating = "MAJOR ($1M+)" <=> s > 30 * UnitsPerBillion
            /\ r.capacity.rating = "LEADERSHIP ($250K-$1M)"
                   <=> (15 * UnitsPerBillion < s /\ s <= 30 * UnitsPerBillion)
            /\ r.capacity.rating = "PRINCIPAL ($50K-$250K)"
                   <=> (5 * UnitsPerBillion < s /\ s <= 15 * UnitsPerBillion)
            /\ r.capacity.rating = "STANDARD ($10K-$50K)" <=> s <= 5 * UnitsPerBillion

\* C4 witness: cash and net income are both reported and positive, total assets are
\* reported, the sum is exactly $30B and the tier is LEADERSHIP
C4_Witness ==
    \E i \in ValidResults :
        LET r == results[i]
        IN  /\ AmountOf(r.financials, "cash_and_equivalents") > 0
            /\ AmountOf(r.financials, "net_income") > 0
            /\ AmountOf(r.financials, "total_assets") > 0
            /\ r.capacity.score = 30 * UnitsPerBillion
            /\ r.capacity.rating = "LEADERSHIP ($250K-$1M)"

\* term occurs in description, letter case aside
HasTerm(description, term) ==
    \E k \in 0..(Len(description) - Len(term)) :
        \A n \in 1..Len(term) : LowerChar(description[k + n]) = term[n]

Healthcare(description) ==
    \/ HasTerm(description, <<"h", "e", "a", "l", "t", "h">>) \/ HasTerm(description, <<"m", "e", "d", "i", "c", "a", "l">>)
    \/ HasTerm(description, <<"p", "h", "a", "r", "m", "a", "c", "e", "u", "t", "i", "c", "a", "l">>) \/ HasTerm(description, <<"h", "o", "s", "p", "i", "t", "a", "l">>)

Retail(description) ==
    \/ HasTerm(description, <<"r", "e", "t", "a", "i", "l">>) \/ HasTerm(description, <<"s", "t", "o", "r", "e">>)
    \/ HasTerm(description, <<"m", "e", "r", "c", "h", "a", "n", "d", "i", "s", "e">>)

Manufacturing(description) ==
    \/ HasTerm(description, <<"m", "a", "n", "u", "f", "a", "c", "t", "u", "r", "i", "n", "g">>) \/ HasTerm(description, <<"c", "h", "e", "m", "i", "c", "a", "l">>)
    \/ HasTerm(description, <<"i", "n", "d", "u", "s", "t", "r", "i", "a", "l">>)

\* C5: the alignment score is 2 (locality) + 3 if the description holds a healthcare
\* term + 2 if it holds a retail term + 1 if it holds a manufacturing term, the three
\* checks being independent; the level is HIGH iff score >= 4, MEDIUM iff
\* 2 <= score < 4, else STANDARD; the factors are one string per check that fired,
\* in the order healthcare, retail, manufacturing, followed by the locality string.
C5_AlignmentAdditive ==
    \A i \in ValidResults :
        LET r == results[i]
            d == r.company.sic_description
            h == Healthcare(d)
            t == Retail(d)
            m == Manufacturing(d)
            score == 2 + (IF h THEN 3 ELSE 0) + (IF t THEN 2 ELSE 0) + (IF m THEN 1 ELSE 0)
        IN  /\ r.alignment.score = score
            /\ r.alignment.level = "HIGH" <=> score >= 4
            /\ r.alignment.level = "MEDIUM" <=> (2 <= score /\ score < 4)
            /\ r.alignment.level = "STANDARD" <=> score < 2
            /\ r.alignment.factors =
                  (IF h THEN <<"Healthcare sector - STRONG alignment with pediatric health mission">>
                        ELSE <<>>)
                  \o (IF t THEN <<"Retail sector - Strong community presence, cause marketing potential">>
                           ELSE <<>>)
                  \o (IF m THEN <<"Manufacturing sector - Likely has established CSR programs">>
                           ELSE <<>>)
                  \o <<"Minnesota headquarters - Local community connection to CCRF">>

\* C5 witness: a description with a hospital term and a retail term scored 7, HIGH,
\* with both factor strings before the locality string
C5_Witness ==
    \E i \in ValidResults :
        LET r == results[i]
        IN  /\ HasTerm(r.company.sic_description, <<"h", "o", "s", "p", "i", "t", "a", "l">>)
            /\ HasTerm(r.company.sic_description, <<"r", "e", "t", "a", "i", "l">>)
            /\ r.alignment.score = 7
            /\ r.alignment.level = "HIGH"
            /\ Len(r.alignment.factors) = 3

---------------------------------------------------------------------------
(* Properties of search_foundation (SpecSearch) *)

\* the search queries issued for the company being researched, in issue order
SearchCalls == SelectSeq(calls, LAMBDA c : c.co = idx /\ c.op = "search")

\* the phrases each company's search is to query, in order
ExpectedTerms ==
    << << <<"T", "a", "r", "g", "e", "t", " ", "C", "o", "r", "p", "o", "r", "a", "t", "i", "o", "n", " ", "f", "o", "u", "n", "d", "a", "t", "i", "o", "n">>, <<"T", "a", "r", "g", "e", "t", " ", "f", "o", "u", "n", "d", "a", "t", "i", "o", "n">> >>,
       << <<"3", "M", " ", "C", "o", "m", "p", "a", "n", "y", " ", "f", "o", "u", "n", "d", "a", "t", "i", "o", "n">>, <<"3", "M", " ", "f", "o", "u", "n", "d", "a", "t", "i", "o", "n">> >>,
       << <<"U", "n", "i", "t", "e", "d", "H", "e", "a", "l", "t", "h", " ", "G", "r", "o", "u", "p", " ", "f", "o", "u", "n", "d", "a", "t", "i", "o", "n">>, <<"U", "n", "i", "t", "e", "d", "H", "e", "a", "l", "t", "h", " ", "f", "o", "u", "n", "d", "a", "t", "i", "o", "n">> >> >>

\* the upper-cased first word of each company's name
ExpectedWord == << <<"T", "A", "R", "G", "E", "T">>, <<"3", "M">>, <<"U", "N", "I", "T", "E", "D", "H", "E", "A", "L", "T", "H">> >>

HasUpper(name, word) ==
    \E k \in 0..(Len(name) - Len(word)) :
        \A n \in 1..Len(word) : UpperChar(name[k + n]) = word[n]

\* the positions, among the first 10 results of a 200 answer, of the organizations
\* whose name holds the company's first word and "FOUNDATION"
Acceptable(resp, i) ==
    IF resp.raised \/ resp.status_code # 200 \/ "organizations" \notin DOMAIN resp.json
    THEN {}
    ELSE LET orgs == resp.json.organizations
         IN  {p \in 1..Len(orgs) :
                 /\ p <= 10
                 /\ "name" \in DOMAIN orgs[p]
                 /\ HasUpper(orgs[p].name, ExpectedWord[i])
                 /\ HasUpper(orgs[p].name, <<"F", "O", "U", "N", "D", "A", "T", "I", "O", "N">>)}

Lowest(S) == CHOOSE p \in S : \A q \in S : p <= q

\* found is the candidate made of the first acceptable organization of resp
IsFirstOf(found, resp, i) ==
    LET org == resp.json.organizations[Lowest(Acceptable(resp, i))]
    IN  found = Some([name |-> Some(org.name), ein |-> Some(org.ein),
                      city |-> Some(org.city), state |-> Some(org.state)])

SearchOver == pc \in {"details", "assemble"}

\* C6: the phrases are queried in the order "{full name} foundation", "{first word}
\* foundation"; only the first 10 results of an answer are inspected, in order; the
\* first organization whose upper-cased name holds the upper-cased first word and
\* "FOUNDATION" is returned; after a match on the first phrase the second phrase is
\* never queried; when no phrase yields a match the result is absence, not an error.
C6_SearchShortCircuit ==
    LET sc == SearchCalls
    IN  /\ Len(sc) <= 2
        /\ \A t \in 1..Len(sc) : sc[t].arg = ExpectedTerms[idx][t]
        /\ pc = "search" => /\ term_i = Len(sc) + 1
                            /\ \A t \in 1..Len(sc) : Acceptable(sc[t].resp, idx) = {}
        /\ SearchOver =>
            /\ Len(sc) >= 1
            /\ IF Acceptable(sc[1].resp, idx) # {}
               THEN /\ Len(sc) = 1
                    /\ pc = "details"
                    /\ IsFirstOf(foundation_search, sc[1].resp, idx)
               ELSE IF sc[1].resp.raised
               THEN Len(sc) = 1 /\ pc = "assemble" /\ foundation_search = None
               ELSE /\ Len(sc) = 2
                    /\ IF Acceptable(sc[2].resp, idx) # {}
                       THEN /\ pc = "details"
                            /\ IsFirstOf(foundation_search, sc[2].resp, idx)
                       ELSE pc = "assemble" /\ foundation_search = None

\* C6 witness: the answer to the first phrase held a decoy, then two acceptable
\* organizations; the first of the two was returned and no second query was issued
C6_Witness ==
    /\ pc = "details"
    /\ Len(SearchCalls) = 1
    /\ Cardinality(Acceptable(SearchCalls[1].resp, idx)) = 2
    /\ Lowest(Acceptable(SearchCalls[1].resp, idx)) > 1
    /\ The(foundation_search).ein = Some(100 + Lowest(Acceptable(SearchCalls[1].resp, idx)))

---------------------------------------------------------------------------
(* Properties of the full run (Spec) *)

\* the upstream calls issued for the i-th company, in issue order
CallsOf(i) == SelectSeq(calls, LAMBDA c : c.co = i)

ExpectedTicker == << <<"T", "G", "T">>, <<"M", "M", "M">>, <<"U", "N", "H">> >>

ExpectedMessage ==
    << <<"C", "o", "u", "l", "d", " ", "n", "o", "t", " ", "f", "i", "n", "d", " ", "C", "I", "K", " ", "f", "o", "r", " ", "T", "G", "T">>,
       <<"C", "o", "u", "l", "d", " ", "n", "o", "t", " ", "f", "i", "n", "d", " ", "C", "I", "K", " ", "f", "o", "r", " ", "M", "M", "M">>,
       <<"C", "o", "u", "l", "d", " ", "n", "o", "t", " ", "f", "i", "n", "d", " ", "C", "I", "K", " ", "f", "o", "r", " ", "U", "N", "H">> >>

SameLetters(a, b) ==
    Len(a) = Len(b) /\ \A n \in 1..Len(a) : UpperChar(a[n]) = UpperChar(b[n])

\* the registry call errored
RegistryErrored(resp) == resp.raised \/ resp.status_code >= 400

\* the registry answered, and no entry of its table matches the i-th symbol
NoTableEntry(resp, i) ==
    /\ ~RegistryErrored(resp)
    /\ ~\E n \in 1..Len(resp.json) : SameLetters(resp.json[n].ticker, ExpectedTicker[i])

\* c being the calls of the i-th company: its identifier resolution failed
ResolutionFailedIn(c, i) ==
    /\ Len(c) >= 1
    /\ RegistryErrored(c[1].resp) \/ NoTableEntry(c[1].resp, i)

\* identifier resolution was tried for the i-th company and failed
ResolutionFailed(i) == ResolutionFailedIn(CallsOf(i), i)

\* a result has just been returned: results changes in no other step
JustReturned == pc \in {"cik", "rank"}

InRanking(i) == \E k \in 1..Len(sorted_results) : sorted_results[k].ticker = ExpectedTicker[i]

IdentityFailedIn(c) ==
    /\ Len(c) >= 2
    /\ c[2].resp.raised \/ c[2].resp.status_code >= 400

\* the identity fetch of the i-th company was tried and failed
IdentityFailed(i) == IdentityFailedIn(CallsOf(i))

\* a result without its capture time
Untimed(r) == [k \in DOMAIN r \ {"researched_at"} |-> r[k]]

\* the last of the calls c with the given op, if any
LastCall(c, op) ==
    LET at == {n \in 1..Len(c) : c[n].op = op}
    IN  IF at = {} THEN None ELSE Some(c[CHOOSE n \in at : \A m \in at : m <= n])

\* the result research_company gives the i-th company for the answers it received,
\* and for no other input
OwnResult(i) ==
    LET c == CallsOf(i)
        company == MINNESOTA_COMPANIES[i]
        k == get_cik_from_ticker(company.ticker, c[1].resp)
        info == get_company_info(company.ticker, The(k), c[2].resp)
        fin == get_company_financials(c[3].resp)
        query == The(LastCall(c, "search"))
        found == IF query.resp.raised THEN None ELSE search_step(query.resp, company.name)
        fetched == LastCall(c, "details")
        details == IF fetched = None THEN None
                   ELSE get_foundation_details(ein_str(The(found)), The(fetched).resp)
    IN  IF k = None THEN [error |-> ExpectedMessage[i]]
        ELSE IF "error" \in DOMAIN info THEN info
        ELSE [ticker     |-> company.ticker,
              config     |-> company,
              company    |-> info,
              financials |-> fin,
              foundation |-> [search |-> found, details |-> details],
              capacity   |-> calculate_capacity_rating(fin),
              alignment  |-> assess_mission_alignment(info)]

\* the companies whose identifier resolution was called, in call order
Resolved == SelectSeq(calls, LAMBDA c : c.op = "cik")

\* in every position but the last the run has a step to take
CanGoOn ==
    /\ pc \in {"cik", "info", "financials", "search", "details", "assemble", "rank", "done"}
    /\ pc \notin {"rank", "done"} => idx \in 1..NumCompanies
    /\ pc = "info" => cik # None
    /\ pc = "search" => term_i \in 1..2
    /\ pc = "details" => foundation_search # None
    /\ pc \in {"rank", "done"} => Len(results) = NumCompanies

\* C7: every configured company is processed exactly once, in configuration order,
\* and the run returns one result per company in that order whatever upstream calls
\* fail; each result is the one its own company's answers determine, so a failure of
\* one company neither prevents nor changes another's result; no failure stops the
\* run short of the ranking.
C7_CompaniesIsolated ==
    /\ Len(results) = idx - 1
    /\ Len(results) <= NumCompanies
    /\ \A n \in 1..Len(Resolved) : Resolved[n].co = n /\ Resolved[n].arg = ExpectedTicker[n]
    /\ Len(Resolved) = IF pc \in {"cik", "rank", "done"} THEN idx - 1 ELSE idx
    /\ JustReturned => \A i \in 1..Len(results) : Untimed(results[i]) = OwnResult(i)
    /\ CanGoOn

\* C7 witness: the run is over; the first company failed resolution, the second
\* failed its identity fetch, and the third has a complete result
C7_Witness ==
    /\ pc = "done"
    /\ Len(results) = 3
    /\ ResolutionFailed(1)
    /\ ~ResolutionFailed(2) /\ IdentityFailed(2)
    /\ "error" \notin DOMAIN results[3]
    /\ results[3].ticker = ExpectedTicker[3]


\* the place of a successful result in the results list
PlaceOf(r) == CHOOSE i \in ValidResults : results[i].ticker = r.ticker

\* C8: the priority ranking is a permutation of exactly the successful results,
\* ordered by capacity score non-increasing, results with equal scores keeping the
\* order in which their companies were processed.
C8_RankingStable ==
    pc = "done" =>
        /\ Len(sorted_results) = Cardinality(ValidResults)
        /\ \A i \in ValidResults :
              Cardinality({k \in 1..Len(sorted_results) : sorted_results[k] = results[i]}) = 1
        /\ \A k \in 1..Len(sorted_results) : \A l \in (k + 1)..Len(sorted_results) :
              /\ sorted_results[k].capacity.score >= sorted_results[l].capacity.score
              /\ sorted_results[k].capacity.score = sorted_results[l].capacity.score
                    => PlaceOf(sorted_results[k]) < PlaceOf(sorted_results[l])

\* C8 witness: all three companies succeeded, the first with a lower score than the
\* other two, whose scores are equal; the ranking is second, third, first
C8_Witness ==
    /\ pc = "done"
    /\ Len(sorted_results) = 3
    /\ results[1].capacity.score < results[2].capacity.score
    /\ results[2].capacity.score = results[3].capacity.score
    /\ sorted_results[1].ticker = ExpectedTicker[2]
    /\ sorted_results[2].ticker = ExpectedTicker[3]
    /\ sorted_results[3].ticker = ExpectedTicker[1]

\* the call next, made right after the call prev for the i-th company, is in order
InOrder(prev, next, i) ==
    IF next.op = "info"
    THEN prev.op = "cik" /\ ~RegistryErrored(prev.resp) /\ ~NoTableEntry(prev.resp, i)
    ELSE IF next.op = "financials"
    THEN prev.op = "info" /\ ~prev.resp.raised /\ prev.resp.status_code < 400
    ELSE IF next.op = "search"
    THEN \/ prev.op = "financials" /\ next.arg = ExpectedTerms[i][1]
         \/ /\ prev.op = "search" /\ prev.arg = ExpectedTerms[i][1]
            /\ next.arg = ExpectedTerms[i][2]
            /\ ~prev.resp.raised
            /\ Acceptable(prev.resp, i) = {}
    ELSE IF next.op = "details"
    THEN prev.op = "search" /\ Acceptable(prev.resp, i) # {}
    ELSE FALSE

\* C9: within one company the upstream calls are made one at a time in the order
\* resolve, identity, facts, search, details, each lookup at most once (the search at
\* most one query per phrase): no call follows a failed resolution or a failed
\* identity fetch, details are fetched only after a search that returned a candidate,
\* and no call for a company is issued before the results of all earlier companies
\* are produced. (calls only grows at its end, so what holds of the latest call in
\* every state holds of every call.)
C9_CallOrder ==
    /\ Len(calls) >= 1 =>
          LET n == Len(calls)
          IN  /\ calls[n].co \in 1..NumCompanies
              /\ calls[n].co <= Len(results) + 1
              /\ n > 1 => calls[n - 1].co <= calls[n].co
              /\ IF n = 1 \/ calls[n - 1].co # calls[n].co
                 THEN calls[n].op = "cik"
                 ELSE InOrder(calls[n - 1], calls[n], calls[n].co)
    /\ (JustReturned /\ Len(results) >= 1) =>
          LET i == Len(results)
              c == CallsOf(i)
          IN  /\ Len(c) \in 1..6
              /\ ResolutionFailedIn(c, i) => Len(c) = 1
              /\ IdentityFailedIn(c) => Len(c) = 2

\* C9 witness: the run is over; one company made all six calls, one stopped after a
\* failed resolution and one after a failed identity fetch
C9_Witness ==
    /\ pc = "done"
    /\ \E i \in 1..NumCompanies :
          /\ Len(CallsOf(i)) = 6
          /\ CallsOf(i)[4].op = "search" /\ CallsOf(i)[5].op = "search"
          /\ CallsOf(i)[6].op = "details"
    /\ \E i \in 1..NumCompanies : ResolutionFailed(i) /\ Len(CallsOf(i)) = 1
    /\ \E i \in 1..NumCompanies : IdentityFailed(i) /\ Len(CallsOf(i)) = 2

\* c being the calls of a company: its facts fetch was tried and failed
FactsFailedIn(c) ==
    /\ Len(c) >= 3
    /\ c[3].resp.raised \/ c[3].resp.status_code >= 400

\* c being the calls of the i-th company: no search query returned a candidate
NothingFoundIn(c, i) ==
    \A n \in 1..Len(c) : c[n].op = "search" => Acceptable(c[n].resp, i) = {}

\* c being the calls of a company: its details fetch was not made, or failed
NoDetailsIn(c) ==
    \A n \in 1..Len(c) :
        c[n].op = "details" => c[n].resp.raised \/ c[n].resp.status_code # 200

FinancialKeys ==
    {"revenue", "net_income", "total_assets", "cash_and_equivalents", "stockholders_equity"}

\* C10: once identifier resolution and the identity fetch succeeded, the company's
\* result is a complete successful record (identity, financials, foundation,
\* capacity, alignment, timestamp) and is in the ranking, whatever the facts fetch,
\* the foundation search and the details fetch did; a failed facts fetch leaves every
\* financial concept absent and gives score 0, tier STANDARD; a search that failed or
\* found nothing leaves the candidate absent, and a details fetch that was not made
\* or failed leaves the profile absent.
C10_GracefulDegradation ==
    (JustReturned \/ pc = "done") =>
        \A i \in 1..Len(results) :
            LET c == CallsOf(i)
                r == results[i]
            IN  (~ResolutionFailedIn(c, i) /\ ~IdentityFailedIn(c)) =>
                    /\ DOMAIN r = {"ticker", "config", "company", "financials",
                                   "foundation", "capacity", "alignment", "researched_at"}
                    /\ pc = "done" =>
                          \E k \in 1..Len(sorted_results) : sorted_results[k] = r
                    /\ FactsFailedIn(c) =>
                          /\ \A key \in FinancialKeys :
                                key \notin DOMAIN r.financials \/ r.financials[key] = None
                          /\ r.capacity.score = 0
                          /\ r.capacity.rating = "STANDARD ($10K-$50K)"
                    /\ NothingFoundIn(c, i) => r.foundation.search = None
                    /\ (NothingFoundIn(c, i) \/ NoDetailsIn(c)) => r.foundation.details = None

\* C10 witness: the run is over; a company whose facts fetch failed, whose search
\* found a candidate and whose details fetch failed is in the ranking
C10_Witness ==
    /\ pc = "done"
    /\ \E i \in 1..NumCompanies :
          LET c == CallsOf(i)
          IN  /\ "error" \notin DOMAIN results[i]
              /\ FactsFailedIn(c)
              /\ ~NothingFoundIn(c, i)
              /\ NoDetailsIn(c)
              /\ results[i].foundation.search # None
              /\ results[i].foundation.details = None
              /\ \E k \in 1..Len(sorted_results) : sorted_results[k] = results[i]

---------------------------------------------------------------------------
(* Properties of get_foundation_details (SpecDetails) *)

DetailsFetched == pc = "assemble" /\ calls # <<>> /\ calls[Len(calls)].op = "details"

\* the filing history of a 200 answer, absent when the fetch failed
HistoryOf(resp) ==
    IF resp.raised \/ resp.status_code # 200 THEN None
    ELSE IF "filings_with_data" \in DOMAIN resp.json
    THEN Some(resp.json.filings_with_data)
    ELSE Some(<<>>)

\* the figure a source filing reports under key, absent when it does not
Figure(filing, key) == IF key \in DOMAIN filing THEN {filing[key]} ELSE {}

\* row is the filing as the source gave it
SameFiling(row, filing) ==
    /\ row.year = Figure(filing, "tax_prd_yr")
    /\ row.revenue = Figure(filing, "totrevenue")
    /\ row.expenses = Figure(filing, "totfuncexpns")
    /\ row.assets = Figure(filing, "totassetsend")
    /\ row.grants_paid = Figure(filing, "contrpdpbks")

\* C11: the recent filings get_foundation_details returns are exactly the first
\* min(3, n) of the n filings the source returned, in the source's order and not
\* re-sorted, for a filing list of any length, 0 included.
C11_FirstThreeFilings ==
    DetailsFetched =>
        LET history == HistoryOf(calls[Len(calls)].resp)
        IN  IF history = None THEN foundation_details = None
            ELSE LET source == The(history)
                     n == Len(source)
                     recent == The(foundation_details).recent_filings
                 IN  /\ foundation_details # None
                     /\ Len(recent) = (IF n < 3 THEN n ELSE 3)
                     /\ \A k \in 1..Len(recent) : SameFiling(recent[k], source[k])

\* a history of more than three filings, oldest first, has been fetched
C11_Witness ==
    /\ DetailsFetched
    /\ HistoryOf(calls[Len(calls)].resp) # None
    /\ LET source == The(HistoryOf(calls[Len(calls)].resp))
       IN  /\ Len(source) = 4
           /\ source[1].tax_prd_yr = 2020
           /\ source[4].tax_prd_yr = 2023
    /\ Len(The(foundation_details).recent_filings) = 3

---------------------------------------------------------------------------
(* Properties of the rationale (SpecScore) *)

\* the snapshot keys the rationale reports, with their labels and markers
RationaleKeys == << "cash_and_equivalents", "net_income", "total_assets" >>

RationaleLabels == << "Cash position", "Net income", "Total assets" >>

UnavailableMarkers ==
    << "Cash data unavailable", "Net income data unavailable", "Assets data unavailable" >>

\* the snapshot holds a value for key: the concept was reported with a value
Present(fin, key) ==
    key \in DOMAIN fin /\ fin[key] # None /\ The(fin[key]).value # None

IsMarker(entry, n) == entry = [text |-> UnavailableMarkers[n]]

ReportsValue(entry, n, amount) ==
    /\ DOMAIN entry = {"text", "tenths"}
    /\ entry.text = RationaleLabels[n]
    /\ 2 * UnitsPerBillion * entry.tenths - UnitsPerBillion <= 20 * amount
    /\ 20 * amount <= 2 * UnitsPerBillion * entry.tenths + UnitsPerBillion

\* C12: for each of cash, net income and total assets the rationale entry is the
\* "unavailable" marker exactly when the underlying value is absent, and otherwise
\* reports the value in billions to one decimal place; a present value, 0 and
\* negative ones included, is reported as a value, not as unavailable.
C12_Claimed ==
    \A i \in ValidResults : \A n \in 1..3 :
        LET fin == results[i].financials
            entry == results[i].capacity.rationale[n]
        IN  IF Present(fin, RationaleKeys[n])
            THEN ReportsValue(entry, n, AmountOf(fin, RationaleKeys[n]))
            ELSE IsMarker(entry, n)

\* C12, as the code behaves: the entry is the marker exactly when the value is absent or
\* is 0, and otherwise reports the value, a negative one included
C12_Observed ==
    \A i \in ValidResults : \A n \in 1..3 :
        LET fin == results[i].financials
            entry == results[i].capacity.rationale[n]
        IN  IF Present(fin, RationaleKeys[n]) /\ AmountOf(fin, RationaleKeys[n]) # 0
            THEN ReportsValue(entry, n, AmountOf(fin, RationaleKeys[n]))
            ELSE IsMarker(entry, n)

\* a result whose cash is reported as 0 and whose net income is a reported loss
C12_Witness ==
    \E i \in ValidResults :
        LET fin == results[i].financials
        IN  /\ Present(fin, "cash_and_equivalents")
            /\ AmountOf(fin, "cash_and_equivalents") = 0
            /\ Present(fin, "net_income")
            /\ AmountOf(fin, "net_income") < 0
            /\ Present(fin, "total_assets")
            /\ AmountOf(fin, "total_assets") = 0

---------------------------------------------------------------------------
(* Determinism of the run (Spec) *)

\* the upstream responses of the run, in the order they were received
ResponsesReceived == [n \in 1..Len(calls) |-> calls[n].resp]

\* the foundation part of the i-th company's research on the responses rs, the
\* first of which answers the first search phrase: what was found, the details,
\* and how many responses were read
ReplayFoundation(i, rs) ==
    LET name == MINNESOTA_COMPANIES[i].name
        first == IF rs[1].raised THEN None ELSE search_step(rs[1], name)
        second == IF rs[2].raised THEN None ELSE search_step(rs[2], name)
    IN  IF rs[1].raised THEN [search |-> None, details |-> None, read |-> 1]
        ELSE IF first # None
        THEN [search |-> first,
              details |-> get_foundation_details(ein_str(The(first)), rs[2]), read |-> 2]
        ELSE IF rs[2].raised \/ second = None
        THEN [search |-> None, details |-> None, read |-> 2]
        ELSE [search |-> second,
              details |-> get_foundation_details(ein_str(The(second)), rs[3]), read |-> 3]

\* the result of the i-th company on the responses rs, without its capture time,
\* and how many responses were read
ReplayCompany(i, rs) ==
    LET company == MINNESOTA_COMPANIES[i]
        k == get_cik_from_ticker(company.ticker, rs[1])
        info == get_company_info(company.ticker, The(k), rs[2])
        fin == get_company_financials(rs[3])
        foundation == ReplayFoundation(i, SubSeq(rs, 4, Len(rs)))
    IN  IF k = None THEN [result |-> [error |-> ExpectedMessage[i]], read |-> 1]
        ELSE IF "error" \in DOMAIN info THEN [result |-> info, read |-> 2]
        ELSE [result |-> [ticker     |-> company.ticker,
                          config     |-> company,
                          company    |-> info,
                          financials |-> fin,
                          foundation |-> [search |-> foundation.search,
                                          details |-> foundation.details],
                          capacity   |-> calculate_capacity_rating(fin),
                          alignment  |-> assess_mission_alignment(info)],
              read |-> 3 + foundation.read]

\* the results of the companies from the i-th on, on the responses rs; a last
\* element tells how many responses were left unread
RECURSIVE ReplayRun(_, _)
ReplayRun(i, rs) ==
    IF i > Len(MINNESOTA_COMPANIES) THEN << [unread |-> Len(rs)] >>
    ELSE LET c == ReplayCompany(i, rs)
         IN  << c.result >> \o ReplayRun(i + 1, SubSeq(rs, c.read + 1, Len(rs)))

\* the ranking of a list of results: the successful ones by score, highest first
RankingOf(rs) == sorted_by_score(SelectSeq(rs, LAMBDA r : "error" \notin DOMAIN r))

\* C13: the orchestrator is deterministic. The result list and the priority ranking
\* of a finished run, capture timestamps aside, are a function of the sequence of
\* upstream responses alone (ReplayRun reads nothing else), so two runs over the
\* same company list that receive identical responses for every call produce
\* result lists and rankings identical in every field except the capture timestamp.
C13_Deterministic ==
    pc = "done" =>
        LET run == ReplayRun(1, ResponsesReceived)
            replayed == SubSeq(run, 1, Len(run) - 1)
        IN  /\ run[Len(run)].unread = 0
            /\ [i \in 1..Len(results) |-> Untimed(results[i])] = replayed
            /\ [k \in 1..Len(sorted_results) |-> Untimed(sorted_results[k])]
                  = RankingOf(replayed)

\* C13 witness: a finished run whose three companies all succeeded, one with
\* foundation details, captured at different times, and ranked out of processing order
C13_Witness ==
    /\ pc = "done"
    /\ Len(sorted_results) = 3
    /\ results[1].researched_at # results[3].researched_at
    /\ \E i \in 1..3 : results[i].foundation.details # None
    /\ sorted_results[1].ticker # results[1].ticker

---------------------------------------------------------------------------
(* The alignment level (SpecScore) *)

\* no industry check fires on the description
NoIndustry(description) ==
    ~Healthcare(description) /\ ~Retail(description) /\ ~Manufacturing(description)

\* C14: the locality contribution of 2 being added whatever the description, the
\* alignment score of every successful result is at least 2, so its level is HIGH
\* or MEDIUM and never STANDARD.
C14_NeverStandard ==
    \A i \in ValidResults :
        LET a == results[i].alignment
        IN  /\ a.score >= 2
            /\ a.level \in {"HIGH", "MEDIUM"}
            /\ a.level # "STANDARD"
            /\ a.factors[Len(a.factors)]
                  = "Minnesota headquarters - Local community connection to CCRF"

\* C14 witness: a successful result whose description is not empty and fires no
\* industry check: the score is the locality's 2 and the level MEDIUM
C14_Witness ==
    \E i \in ValidResults :
        LET r == results[i]
        IN  /\ r.company.sic_description # <<>>
            /\ NoIndustry(r.company.sic_description)
            /\ r.alignment.score = 2
            /\ r.alignment.level = "MEDIUM"

=============================================================================
